---------------------------- MODULE Spec2Model ----------------------------
(***************************************************************************)
(* corset: extraction of policy statements from JSON documents, first-fit  *)
(* decreasing packing of the statements into at most MaxFiles documents,   *)
(* and the writing of the packed documents (internal/core).                *)
(*                                                                         *)
(* Serialized JSON is modelled as a sequence of tokens; the length of a    *)
(* text is the sum of the lengths of its tokens, so that a string of 5000  *)
(* characters is one token of length 5002 and not 5002 sequence elements.  *)
(* Group and statement indices are 1-based here and 0-based in the Go      *)
(* code.                                                                   *)
(***************************************************************************)
EXTENDS Integers, Sequences, FiniteSets, TLC

VARIABLES
    userInput,   \* inputs.UserInput: Target, Replace, Whitespace, IsDirectory,
                 \* MaxFiles
    inputFiles,  \* the files argument of ProcessFiles
    fs,          \* the file system: path -> text, defined on the existing files
    fs0,         \* the file system when the run started
    statements,  \* the statements slice of packStatements (sorted in place)
    given,       \* the statements as they were passed to packStatements
    baseSize,    \* the baseSize argument of packStatements
    files,       \* packStatements: files
    fileSizes,   \* packStatements: fileSizes
    k,           \* packStatements: number of statements the loop has handled
    result,      \* what packStatements returned
    written,     \* the paths written by orchestrateOutputFiles, in order
    removed,     \* the paths handed to os.Remove by replaceInputFiles, in order
    writeFailed, \* the indices of written whose os.WriteFile returned an error
    exitCode,    \* the exit status of the process, Running before it ends
    pc           \* the position of the run

vars == <<userInput, inputFiles, fs, fs0, statements, given, baseSize, files,
          fileSizes, k, result, written, removed, writeFailed, exitCode, pc>>

---------------------------------------------------------------------------
(* Program constants (internal/config/config.go).                          *)

DefaultMaxFiles == 5
MaxPolicySize == 5120
SCPBaseSizeMinified == 37
SCPBaseSizeWithWS == 46
SCPVersion == "2012-10-17"

\* the value of exitCode while the process has not ended
Running == -1

---------------------------------------------------------------------------
(* Bounds of the model.                                                    *)

\* the longest statement sequence handed to packStatements directly
MaxStatements == 3
\* the largest MaxFiles handed to packStatements directly
MaxFilesBound == 2

---------------------------------------------------------------------------
(* Sequences.                                                              *)

RECURSIVE SumSeq(_)
SumSeq(s) == IF s = <<>> THEN 0 ELSE Head(s) + SumSeq(Tail(s))

RECURSIVE Flatten(_)
Flatten(ss) == IF ss = <<>> THEN <<>> ELSE Head(ss) \o Flatten(Tail(ss))

Range(s) == {s[i] : i \in DOMAIN s}

\* how many times x occurs in s
Count(s, x) == Cardinality({i \in DOMAIN s : s[i] = x})

\* s and t hold the same elements the same number of times
SameMultiset(s, t) ==
    /\ Len(s) = Len(t)
    /\ \A x \in Range(s) \cup Range(t) : Count(s, x) = Count(t, x)

---------------------------------------------------------------------------
(* JSON texts (encoding/json as internal/core uses it).                    *)
(*                                                                         *)
(* A JSON string is [txt |-> t, fill |-> n]: the characters of t followed  *)
(* by n characters that need no escape.  A statement (map[string]          *)
(* interface{}) is a function from member names to JSON strings.  A text   *)
(* is a sequence of tokens [k, s, n]:                                      *)
(*   "lit": the punctuation s             "str": the quoted string s, n    *)
(*   "nl":  a line break and n spaces     "sp":  one space                 *)
(*   "num": a number of n digits                                           *)
(*   "bad": n characters that are no JSON                                  *)

JString(t, n) == [txt |-> t, fill |-> n]

Lit(s) == [k |-> "lit", s |-> s, n |-> 0]
Str(v) == [k |-> "str", s |-> v.txt, n |-> v.fill]
Nl(n) == [k |-> "nl", s |-> "", n |-> n]
Sp == [k |-> "sp", s |-> "", n |-> 0]
Num(n) == [k |-> "num", s |-> "", n |-> n]
Null == Lit("null")
Bad(n) == [k |-> "bad", s |-> "", n |-> n]

\* a nil map[string]interface{}: the map on a key that no JSON object of
\* the model has, so that it differs from every decoded object, the empty
\* one included
NilMap == [key \in {"nil"} |-> JString("", 0)]

TokLen(t) ==
    CASE t.k = "lit" -> Len(t.s)
      [] t.k = "str" -> Len(t.s) + t.n + 2
      [] t.k = "nl" -> 1 + t.n
      [] t.k = "sp" -> 1
      [] t.k = "num" -> t.n
      [] t.k = "bad" -> t.n

\* len(data)
TextLen(text) == SumSeq([i \in DOMAIN text |-> TokLen(text[i])])

\* the member names of the model, in the order json.Marshal writes the
\* keys of a map (sorted)
KeyOrder == <<"Effect", "Resource", "Sid">>

RECURSIVE JoinTexts(_, _)
JoinTexts(texts, sep) ==
    IF texts = <<>> THEN <<>>
    ELSE IF Len(texts) = 1 THEN Head(texts)
    ELSE Head(texts) \o <<sep>> \o JoinTexts(Tail(texts), sep)

\* json.Marshal of a map[string]interface{} whose values are strings; a
\* nil map is written as null
MarshalMap(m) ==
    LET keys == SelectSeq(KeyOrder, LAMBDA key : key \in DOMAIN m)
        member(i) == <<Str(JString(keys[i], 0)), Lit(":"), Str(m[keys[i]])>>
    IN  IF m = NilMap THEN <<Null>>
        ELSE <<Lit("{")>>
             \o JoinTexts([i \in DOMAIN keys |-> member(i)], Lit(","))
             \o <<Lit("}")>>

\* a Policy (internal/core/types.go)
Policy(version, stmts) == [Version |-> version, Statement |-> stmts]

\* json.Marshal of a Policy: the fields in the order of the struct
MarshalPolicy(p) ==
    <<Lit("{"), Str(JString("Version", 0)), Lit(":"),
      Str(JString(p.Version, 0)), Lit(","),
      Str(JString("Statement", 0)), Lit(":"), Lit("[")>>
    \o JoinTexts([i \in DOMAIN p.Statement |-> MarshalMap(p.Statement[i])],
                 Lit(","))
    \o <<Lit("]"), Lit("}")>>

IsOpen(t) == t = Lit("{") \/ t = Lit("[")
IsClose(t) == t = Lit("}") \/ t = Lit("]")

\* json.Indent with prefix "" and indent "  ": a line break and the
\* indentation after every opening bracket and every comma and before every
\* closing bracket, none inside an empty object or array, and a space
\* after every colon
RECURSIVE IndentFrom(_, _, _, _)
IndentFrom(text, i, depth, needIndent) ==
    IF i > Len(text) THEN <<>>
    ELSE LET c == text[i]
             open == needIndent /\ ~IsClose(c)
             d == IF open THEN depth + 1 ELSE depth
             pre == IF open THEN <<Nl(2 * d)>> ELSE <<>>
         IN  IF IsOpen(c)
             THEN pre \o <<c>> \o IndentFrom(text, i + 1, d, TRUE)
             ELSE IF c = Lit(",")
             THEN pre \o <<c, Nl(2 * d)>> \o IndentFrom(text, i + 1, d, FALSE)
             ELSE IF c = Lit(":")
             THEN pre \o <<c, Sp>> \o IndentFrom(text, i + 1, d, FALSE)
             ELSE IF IsClose(c)
             THEN IF needIndent
                  THEN <<c>> \o IndentFrom(text, i + 1, d, FALSE)
                  ELSE <<Nl(2 * (d - 1)), c>>
                       \o IndentFrom(text, i + 1, d - 1, FALSE)
             ELSE pre \o <<c>> \o IndentFrom(text, i + 1, d, FALSE)

\* json.MarshalIndent(policy, "", "  ")
MarshalIndentPolicy(p) == IndentFrom(MarshalPolicy(p), 1, 0, FALSE)

\* JSON white space between tokens means nothing to the parser
IsSpace(t) == t.k \in {"nl", "sp"}
Compact(text) == SelectSeq(text, LAMBDA t : ~IsSpace(t))

\* the outcome of decoding one value: ok is FALSE for a text that is no
\* JSON; terr is TRUE when a value of the wrong type was met, which the
\* decoder skips, leaving its target as it was, to go on with the rest and
\* return an UnmarshalTypeError at the end
ParseFail == [ok |-> FALSE, val |-> <<>>, next |-> 0, terr |-> FALSE]
Parsed(v, n) == [ok |-> TRUE, val |-> v, next |-> n, terr |-> FALSE]
Mismatch(v, n) == [ok |-> TRUE, val |-> v, next |-> n, terr |-> TRUE]

PutMember(m, key, v) ==
    [x \in DOMAIN m \cup {key} |-> IF x = key THEN v ELSE m[x]]

\* the members of a JSON object whose values are strings, from the member
\* name at position i on, up to and including the closing brace
RECURSIVE ParseMembers(_, _, _)
ParseMembers(t, i, acc) ==
    IF i + 3 > Len(t) THEN ParseFail
    ELSE IF t[i].k # "str" \/ t[i + 1] # Lit(":") \/ t[i + 2].k # "str"
    THEN ParseFail
    ELSE LET m == PutMember(acc, t[i].s, JString(t[i + 2].s, t[i + 2].n))
         IN  IF t[i + 3] = Lit("}") THEN Parsed(m, i + 4)
             ELSE IF t[i + 3] = Lit(",") THEN ParseMembers(t, i + 4, m)
             ELSE ParseFail

\* a JSON object at position i, decoded into a map[string]interface{}
ParseMapAt(t, i) ==
    IF i + 1 > Len(t) THEN ParseFail
    ELSE IF t[i] # Lit("{") THEN ParseFail
    ELSE IF t[i + 1] = Lit("}") THEN Parsed(<<>>, i + 2)
    ELSE ParseMembers(t, i + 1, <<>>)

\* one element of the Statement array, decoded into a new element of the
\* slice: an object gives its map, null the nil map, and a string or a
\* number is of the wrong type and leaves the element the nil map it was
ParseElementAt(t, i) ==
    IF i > Len(t) THEN ParseFail
    ELSE IF t[i] = Null THEN Parsed(NilMap, i + 1)
    ELSE IF t[i].k \in {"str", "num"} THEN Mismatch(NilMap, i + 1)
    ELSE ParseMapAt(t, i)

RECURSIVE ParseElements(_, _, _, _)
ParseElements(t, i, acc, terr) ==
    LET e == ParseElementAt(t, i)
        r == [ok |-> TRUE, val |-> Append(acc, e.val), next |-> e.next + 1,
              terr |-> terr \/ e.terr]
    IN  IF ~e.ok THEN ParseFail
        ELSE IF e.next > Len(t) THEN ParseFail
        ELSE IF t[e.next] = Lit("]") THEN r
        ELSE IF t[e.next] = Lit(",")
        THEN ParseElements(t, e.next + 1, r.val, r.terr)
        ELSE ParseFail

\* a JSON array at position i, decoded into []map[string]interface{}
ParseArrayAt(t, i) ==
    IF i + 1 > Len(t) THEN ParseFail
    ELSE IF t[i] # Lit("[") THEN ParseFail
    ELSE IF t[i + 1] = Lit("]") THEN Parsed(<<>>, i + 2)
    ELSE ParseElements(t, i + 1, <<>>, FALSE)

\* the zero value of Policy
ZeroPolicy == Policy("", <<>>)

\* the value of the Version member at position i: a string is stored, null
\* changes nothing, a number is of the wrong type
ParseVersionAt(t, i, acc) ==
    IF t[i].k = "str" THEN Parsed(t[i].s, i + 1)
    ELSE IF t[i] = Null THEN Parsed(acc.Version, i + 1)
    ELSE IF t[i].k = "num" THEN Mismatch(acc.Version, i + 1)
    ELSE ParseFail

\* the value of the Statement member at position i: an array is decoded,
\* null gives the nil slice, a string or a number is of the wrong type
ParseStatementAt(t, i, acc) ==
    IF t[i] = Null THEN Parsed(<<>>, i + 1)
    ELSE IF t[i].k \in {"str", "num"} THEN Mismatch(acc.Statement, i + 1)
    ELSE ParseArrayAt(t, i)

\* the fields of the document object from the member name at position i;
\* the text must end with the closing brace of the document
RECURSIVE ParseFields(_, _, _, _)
ParseFields(t, i, acc, terr) ==
    IF i + 2 > Len(t) THEN ParseFail
    ELSE IF t[i].k # "str" \/ t[i + 1] # Lit(":") THEN ParseFail
    ELSE LET v == IF t[i].s = "Version" THEN ParseVersionAt(t, i + 2, acc)
                  ELSE IF t[i].s = "Statement"
                  THEN ParseStatementAt(t, i + 2, acc)
                  ELSE ParseFail
             p == IF t[i].s = "Version"
                  THEN [acc EXCEPT !.Version = v.val]
                  ELSE [acc EXCEPT !.Statement = v.val]
             r == [ok |-> TRUE, val |-> p, next |-> v.next + 1,
                   terr |-> terr \/ v.terr]
         IN  IF ~v.ok THEN ParseFail
             ELSE IF v.next > Len(t) THEN ParseFail
             ELSE IF t[v.next] = Lit("}")
             THEN IF v.next = Len(t) THEN r ELSE ParseFail
             ELSE IF t[v.next] = Lit(",")
             THEN ParseFields(t, v.next + 1, p, r.terr)
             ELSE ParseFail

\* var policy Policy; err := json.Unmarshal(data, &policy).  A text that is
\* no JSON is rejected before anything is stored and leaves the zero
\* Policy; a document with a value of the wrong type is decoded as far as
\* its other values go, and an error is returned all the same.  The model
\* reads documents whose members are Version and Statement and statements
\* whose values are strings.
Decode(text) ==
    LET t == Compact(text)
        r == IF Len(t) < 2 THEN ParseFail
             ELSE IF t[1] # Lit("{") THEN ParseFail
             ELSE IF t[2] = Lit("}")
             THEN IF Len(t) = 2 THEN Parsed(ZeroPolicy, 3) ELSE ParseFail
             ELSE ParseFields(t, 2, ZeroPolicy, FALSE)
    IN  IF r.ok THEN [policy |-> r.val, err |-> r.terr]
        ELSE [policy |-> ZeroPolicy, err |-> TRUE]

\* the policy after json.Unmarshal(data, &policy), the error dropped
Unmarshal(text) == Decode(text).policy

\* json.Unmarshal(data, &policy) returned an error
UnmarshalError(text) == Decode(text).err

---------------------------------------------------------------------------
(* The packing engine: packStatements (internal/core/outputs.go).          *)

\* a Statement (internal/core/types.go)
Statement(content, size) == [Content |-> content, Size |-> size]

\* the bug of returning the files filled so far when a statement fits in
\* none
PartialResult ==
    [isNil |-> FALSE, groups |-> SelectSeq(files, LAMBDA f : Len(f) > 0)]

\* packStatements returns nil (the infeasible signal) or a list of groups
NilResult == [isNil |-> TRUE, groups |-> <<>>]
Groups(gs) == [isNil |-> FALSE, groups |-> gs]
\* no call of packStatements has returned yet
NoResult == [isNil |-> FALSE, groups |-> <<"pending">>]

\* s in non-increasing order of Size: what sort.Slice guarantees for the
\* comparison statements[i].Size > statements[j].Size
SortedBySizeDesc(s) == \A i, j \in DOMAIN s : i < j => s[i].Size >= s[j].Size

\* the bug of leaving the statements in the order given
SortOutcomesUnsorted(s) == {s}

\* sort.Slice is not a stable sort: it leaves the statements in any order
\* that is sorted by the comparison, so every such order is an outcome.
SortOutcomes(s) ==
    {t \in {[i \in DOMAIN s |-> s[p[i]]] : p \in Permutations(DOMAIN s)} :
        SortedBySizeDesc(t)}

\* files := make([][]Statement, userInput.MaxFiles)
MakeFiles(maxFiles) == [i \in 1..maxFiles |-> <<>>]

\* the bug of seeding the counters with 0, the base overhead forgotten
MakeFileSizesZero(maxFiles, base) == [i \in 1..maxFiles |-> 0]

\* fileSizes[i] = baseSize for every i
MakeFileSizes(maxFiles, base) == [i \in 1..maxFiles |-> base]

\* the bug of never counting the comma
SeparatorNone(file) == 0

\* the comma that joins a statement to the ones already in the file
Separator(file) == IF Len(file) > 0 THEN 1 ELSE 0

Fits(fileSize, file, stmt) ==
    fileSize + stmt.Size + Separator(file) <= MaxPolicySize

\* the bug of assigning the statement to the file instead of appending it
PlaceStmtOverwrite(fls, sizes, stmt, maxFiles) ==
    LET fit == {i \in 1..maxFiles : Fits(sizes[i], fls[i], stmt)}
    IN  IF fit = {}
        THEN [files |-> fls, fileSizes |-> sizes, placed |-> FALSE]
        ELSE LET i == CHOOSE x \in fit : \A y \in fit : x <= y
             IN  [files |-> [fls EXCEPT ![i] = <<stmt>>],
                  fileSizes |-> [sizes EXCEPT
                                   ![i] = @ + stmt.Size + Separator(fls[i])],
                  placed |-> TRUE]

\* the bug of opening one more file when the statement fits in none
PlaceStmtUnbounded(fls, sizes, stmt, maxFiles) ==
    LET fit == {i \in 1..maxFiles : Fits(sizes[i], fls[i], stmt)}
    IN  IF fit = {}
        THEN [files |-> Append(fls, <<stmt>>),
              fileSizes |-> Append(sizes, stmt.Size),
              placed |-> TRUE]
        ELSE LET i == CHOOSE x \in fit : \A y \in fit : x <= y
             IN  [files |-> [fls EXCEPT ![i] = Append(@, stmt)],
                  fileSizes |-> [sizes EXCEPT
                                   ![i] = @ + stmt.Size + Separator(fls[i])],
                  placed |-> TRUE]

\* the bug of taking the last file in which the statement fits
PlaceStmtLastFit(fls, sizes, stmt, maxFiles) ==
    LET fit == {i \in 1..maxFiles : Fits(sizes[i], fls[i], stmt)}
    IN  IF fit = {}
        THEN [files |-> fls, fileSizes |-> sizes, placed |-> FALSE]
        ELSE LET i == CHOOSE x \in fit : \A y \in fit : x >= y
             IN  [files |-> [fls EXCEPT ![i] = Append(@, stmt)],
                  fileSizes |-> [sizes EXCEPT
                                   ![i] = @ + stmt.Size + Separator(fls[i])],
                  placed |-> TRUE]

\* the bug of leaving the counter of the file as it was
PlaceStmtNoCount(fls, sizes, stmt, maxFiles) ==
    LET fit == {i \in 1..maxFiles : Fits(sizes[i], fls[i], stmt)}
    IN  IF fit = {}
        THEN [files |-> fls, fileSizes |-> sizes, placed |-> FALSE]
        ELSE LET i == CHOOSE x \in fit : \A y \in fit : x <= y
             IN  [files |-> [fls EXCEPT ![i] = Append(@, stmt)],
                  fileSizes |-> sizes,
                  placed |-> TRUE]

\* the bug of trying the first file only
PlaceStmtFirstOnly(fls, sizes, stmt, maxFiles) ==
    IF maxFiles >= 1 /\ Fits(sizes[1], fls[1], stmt)
    THEN [files |-> [fls EXCEPT ![1] = Append(@, stmt)],
          fileSizes |-> [sizes EXCEPT
                           ![1] = @ + stmt.Size + Separator(fls[1])],
          placed |-> TRUE]
    ELSE [files |-> fls, fileSizes |-> sizes, placed |-> FALSE]

\* one pass of the outer loop: the statement goes to the first file, in
\* index order, in which it fits; placed is FALSE when there is none
PlaceStmt(fls, sizes, stmt, maxFiles) ==
    LET fit == {i \in 1..maxFiles : Fits(sizes[i], fls[i], stmt)}
    IN  IF fit = {}
        THEN [files |-> fls, fileSizes |-> sizes, placed |-> FALSE]
        ELSE LET i == CHOOSE x \in fit : \A y \in fit : x <= y
             IN  [files |-> [fls EXCEPT ![i] = Append(@, stmt)],
                  fileSizes |-> [sizes EXCEPT
                                   ![i] = @ + stmt.Size + Separator(fls[i])],
                  placed |-> TRUE]

\* the bug of returning the nil slice when no file holds a statement
RemoveEmptyFilesNil(fls) ==
    IF SelectSeq(fls, LAMBDA f : Len(f) > 0) = <<>>
    THEN NilResult
    ELSE Groups(SelectSeq(fls, LAMBDA f : Len(f) > 0))

\* the bug of returning the files that hold no statement too
RemoveEmptyFilesKeepAll(fls) == Groups(fls)

\* remove empty files; an empty list and not nil when nothing is left
RemoveEmptyFiles(fls) == Groups(SelectSeq(fls, LAMBDA f : Len(f) > 0))

\* packStatements, line 229: the statements are sorted in place
SortStatements ==
    /\ pc = "sort"
    /\ statements' \in SortOutcomes(statements)
    /\ files' = MakeFiles(userInput.MaxFiles)
    /\ fileSizes' = MakeFileSizes(userInput.MaxFiles, baseSize)
    /\ k' = 0
    /\ pc' = "place"
    /\ UNCHANGED <<writeFailed, exitCode,
                   userInput, inputFiles, fs, fs0, given, baseSize, result,
                   written, removed>>

\* packStatements, lines 241-262: one statement is placed, or nil returned
PlaceStatement ==
    /\ pc = "place"
    /\ k < Len(statements)
    /\ LET r == PlaceStmt(files, fileSizes, statements[k + 1],
                          userInput.MaxFiles)
       IN  /\ files' = r.files
           /\ fileSizes' = r.fileSizes
           /\ IF r.placed
              THEN /\ k' = k + 1
                   /\ pc' = "place"
                   /\ result' = result
              ELSE /\ k' = k
                   /\ pc' = "returned"
                   /\ result' = NilResult
    /\ UNCHANGED <<writeFailed, exitCode,
                   userInput, inputFiles, fs, fs0, statements, given,
                   baseSize, written, removed>>

\* packStatements, lines 264-277: the loop is over, the groups are returned
ReturnGroups ==
    /\ pc = "place"
    /\ k = Len(statements)
    /\ result' = RemoveEmptyFiles(files)
    /\ pc' = "returned"
    /\ UNCHANGED <<writeFailed, exitCode,
                   userInput, inputFiles, fs, fs0, statements, given,
                   baseSize, files, fileSizes, k, written, removed>>

---------------------------------------------------------------------------
(* packStatements called directly, as the unit tests call it.              *)

PackContents == {"c1", "c2"}
PackSizes == {100, 2000, 2541, 2542, 3000, 5083, 5084}
PackBaseSizes == {SCPBaseSizeMinified, SCPBaseSizeWithWS}

PackInputs ==
    UNION {[1..n -> {Statement(c, z) : c \in PackContents, z \in PackSizes}] :
             n \in 0..MaxStatements}

NoFiles == [p \in {} |-> <<>>]

InitPack ==
    /\ userInput \in {[Target |-> <<>>, Replace |-> FALSE,
                       Whitespace |-> FALSE, IsDirectory |-> FALSE,
                       MaxFiles |-> m] :
                        m \in (0..MaxFilesBound) \cup {DefaultMaxFiles}}
    /\ inputFiles = <<>>
    /\ fs = NoFiles
    /\ fs0 = NoFiles
    /\ statements \in PackInputs
    /\ given = statements
    /\ baseSize \in PackBaseSizes
    /\ files = <<>>
    /\ fileSizes = <<>>
    /\ k = 0
    /\ result = NoResult
    /\ written = <<>>
    /\ removed = <<>>
    /\ writeFailed = {}
    /\ exitCode = Running
    /\ pc = "sort"

NextPack == SortStatements \/ PlaceStatement \/ ReturnGroups

SpecPack == InitPack /\ [][NextPack]_vars

---------------------------------------------------------------------------
(* Paths (path/filepath) are sequences of characters.                      *)

\* the characters of the paths of the model in ASCII order
Alphabet == <<"-", ".", "/", "0", "1", "2", "3", "4", "5", "6", "7", "8",
              "9", "a", "b", "c", "e", "j", "n", "o", "p", "r", "s", "t">>

CharRank(c) == CHOOSE i \in DOMAIN Alphabet : Alphabet[i] = c

\* x < y as Go strings
RECURSIVE LexLess(_, _)
LexLess(x, y) ==
    IF y = <<>> THEN FALSE
    ELSE IF x = <<>> THEN TRUE
    ELSE IF Head(x) = Head(y) THEN LexLess(Tail(x), Tail(y))
    ELSE CharRank(Head(x)) < CharRank(Head(y))

HasPrefix(x, pre) == Len(x) >= Len(pre) /\ SubSeq(x, 1, Len(pre)) = pre
HasSuffix(x, suf) ==
    Len(x) >= Len(suf) /\ SubSeq(x, Len(x) - Len(suf) + 1, Len(x)) = suf

\* the position of the last separator of a path, 0 when it has none
LastSlash(path) ==
    LET at == {i \in DOMAIN path : path[i] = "/"}
    IN  IF at = {} THEN 0 ELSE CHOOSE i \in at : \A j \in at : j <= i

\* the elements of a path between its separators
RECURSIVE SplitPath(_)
SplitPath(path) ==
    LET at == {i \in DOMAIN path : path[i] = "/"}
    IN  IF at = {} THEN <<path>>
        ELSE LET i == CHOOSE x \in at : \A y \in at : x <= y
             IN  <<SubSeq(path, 1, i - 1)>>
                 \o SplitPath(SubSeq(path, i + 1, Len(path)))

\* filepath.Clean for paths without "..": empty and "." elements dropped
Clean(path) ==
    LET rooted == path # <<>> /\ path[1] = "/"
        elems == SelectSeq(SplitPath(path), LAMBDA e : e # <<>> /\ e # <<".">>)
        body == JoinTexts(elems, "/")
    IN  IF rooted THEN <<"/">> \o body
        ELSE IF body = <<>> THEN <<".">>
        ELSE body

\* filepath.Dir
Dir(path) == Clean(SubSeq(path, 1, LastSlash(path)))

\* filepath.Base
RECURSIVE Base(_)
Base(path) ==
    IF path = <<>> THEN <<".">>
    ELSE IF path[Len(path)] = "/"
    THEN IF Len(path) = 1 THEN <<"/">> ELSE Base(SubSeq(path, 1, Len(path) - 1))
    ELSE SubSeq(path, LastSlash(path) + 1, Len(path))

\* filepath.Ext: from the last dot of the last element, empty without one
Ext(path) ==
    LET dots == {i \in DOMAIN path : path[i] = "." /\ i > LastSlash(path)}
    IN  IF dots = {} THEN <<>>
        ELSE SubSeq(path, CHOOSE i \in dots : \A j \in dots : j <= i, Len(path))

\* filepath.Join of two elements
Join(a, b) ==
    IF a = <<>> /\ b = <<>> THEN <<>>
    ELSE IF a = <<>> THEN Clean(b)
    ELSE IF b = <<>> THEN Clean(a)
    ELSE Clean(a \o <<"/">> \o b)

\* fmt.Sprintf("%d", n) for n >= 0
RECURSIVE Itoa(_)
Itoa(n) ==
    IF n < 10 THEN <<Alphabet[n + 4]>>
    ELSE Itoa(n \div 10) \o <<Alphabet[(n % 10) + 4]>>

DotJson == <<".", "j", "s", "o", "n">>

Corset == <<"c", "o", "r", "s", "e", "t">>

\* the bug of taking the default name corset<n>.json in every mode
generateOutputFilenameCorset(ui, outputDir, fileNum, inFiles) ==
    Join(outputDir, Corset \o Itoa(fileNum) \o DotJson)

\* the bug of giving every file the name of file 1
generateOutputFilenameFirst(ui, outputDir, fileNum, inFiles) ==
    IF ~ui.IsDirectory /\ Len(inFiles) = 1 THEN inFiles[1]
    ELSE IF ui.IsDirectory THEN Join(outputDir, Base(ui.Target) \o DotJson)
    ELSE Join(outputDir, Corset \o Itoa(1) \o DotJson)

\* generateOutputFilename (internal/core/outputs.go, lines 49-72)
generateOutputFilename(ui, outputDir, fileNum, inFiles) ==
    IF ~ui.IsDirectory /\ Len(inFiles) = 1
    THEN LET originalFile == inFiles[1]
             ext == Ext(originalFile)
             nameWithoutExt ==
                 SubSeq(originalFile, 1, Len(originalFile) - Len(ext))
         IN  IF fileNum = 1 THEN originalFile
             ELSE nameWithoutExt \o <<"-">> \o Itoa(fileNum) \o ext
    ELSE IF ui.IsDirectory
    THEN LET baseName == Base(ui.Target)
         IN  IF fileNum = 1 THEN Join(outputDir, baseName \o DotJson)
             ELSE Join(outputDir,
                       baseName \o <<"-">> \o Itoa(fileNum) \o DotJson)
    ELSE Join(outputDir, Corset \o Itoa(fileNum) \o DotJson)

---------------------------------------------------------------------------
(* The file system: a function from the paths of the existing files to     *)
(* their texts.  A read fails for a missing file only; a write that fails  *)
(* leaves the file system as it was (WriteOutputFile).                     *)

Exists(fsys, path) == path \in DOMAIN fsys

\* os.ReadFile with the error dropped: no data for a missing file
ReadFile(fsys, path) == IF Exists(fsys, path) THEN fsys[path] ELSE <<>>

\* os.WriteFile
WriteFile(fsys, path, data) ==
    [q \in DOMAIN fsys \cup {path} |-> IF q = path THEN data ELSE fsys[q]]

\* os.Remove with the error dropped
Remove(fsys, path) == [q \in DOMAIN fsys \ {path} |-> fsys[q]]

\* the paths of a set in ascending order
RECURSIVE SortPaths(_)
SortPaths(S) ==
    IF S = {} THEN <<>>
    ELSE LET m == CHOOSE x \in S : \A y \in S \ {x} : LexLess(x, y)
         IN  <<m>> \o SortPaths(S \ {m})

\* FindJSONFilesInDirectory (internal/core/files.go) for a directory
\* without subdirectories: WalkDir visits the entries in lexical order
FindJSONFilesInDirectory(fsys, dir) ==
    SortPaths({q \in DOMAIN fsys :
                 HasPrefix(q, dir \o <<"/">>) /\ HasSuffix(q, DotJson)})

---------------------------------------------------------------------------
(* Extraction (internal/core/extract.go).                                  *)

extractIndividualStatements(fsys, filename) ==
    LET policy == Unmarshal(ReadFile(fsys, filename))
    IN  [i \in DOMAIN policy.Statement |->
           Statement(policy.Statement[i],
                     TextLen(MarshalMap(policy.Statement[i])))]

\* the bug of putting the statements of a file before those of the files
\* that precede it
RECURSIVE extractAllStatementsPrepend(_, _)
extractAllStatementsPrepend(fsys, fileList) ==
    IF fileList = <<>> THEN <<>>
    ELSE extractAllStatementsPrepend(fsys, Tail(fileList))
         \o extractIndividualStatements(fsys, Head(fileList))

RECURSIVE extractAllStatements(_, _)
extractAllStatements(fsys, fileList) ==
    IF fileList = <<>> THEN <<>>
    ELSE extractIndividualStatements(fsys, Head(fileList))
         \o extractAllStatements(fsys, Tail(fileList))

---------------------------------------------------------------------------
(* The document assembler (internal/core/outputs.go, lines 80-96).         *)

\* the bug of filling policy.Statement from the last statement to the first
writeJSONReversed(ui, stmts) ==
    LET policy == Policy(SCPVersion,
                         [i \in DOMAIN stmts |->
                            stmts[Len(stmts) + 1 - i].Content])
    IN  IF ui.Whitespace THEN MarshalIndentPolicy(policy)
        ELSE MarshalPolicy(policy)

writeJSON(ui, stmts) ==
    LET policy == Policy(SCPVersion, [i \in DOMAIN stmts |-> stmts[i].Content])
    IN  IF ui.Whitespace THEN MarshalIndentPolicy(policy)
        ELSE MarshalPolicy(policy)

---------------------------------------------------------------------------
(* ProcessFiles (internal/core/process.go) and buildOutput                 *)
(* (internal/core/outputs.go).                                             *)

\* packedFiles as buildOutput ranges over it: nil has no element
PackedFiles == IF result.isNil THEN <<>> ELSE result.groups

SingleFile == ~userInput.IsDirectory /\ Len(inputFiles) = 1

\* buildOutput, lines 14-21
OutputDir ==
    IF userInput.IsDirectory THEN userInput.Target ELSE Dir(inputFiles[1])

\* main returns after ProcessFiles has returned: the process ends with
\* exit status 0 (main.go, lines 24-25)
MainReturns == 0

\* the bug of going on to packing when extraction found no statement
ExtractStatementsAlwaysPack ==
    /\ pc = "extract"
    /\ statements' = extractAllStatements(fs, inputFiles)
    /\ pc' = "pack"
    /\ UNCHANGED <<writeFailed, exitCode, userInput, inputFiles, fs, fs0,
                   given, baseSize, files, fileSizes, k, result, written,
                   removed>>

\* ProcessFiles, lines 9-13: extraction, and the return when it found none
ExtractStatements ==
    /\ pc = "extract"
    /\ statements' = extractAllStatements(fs, inputFiles)
    /\ pc' = IF Len(statements') = 0 THEN "done" ELSE "pack"
    /\ exitCode' = IF Len(statements') = 0 THEN MainReturns ELSE exitCode
    /\ UNCHANGED <<writeFailed, userInput, inputFiles, fs, fs0, given,
                   baseSize, files, fileSizes, k, result, written, removed>>

\* packAllStatements, lines 220-226: the base size of the output format
PackAllStatements ==
    /\ pc = "pack"
    /\ baseSize' = IF userInput.Whitespace THEN SCPBaseSizeWithWS
                   ELSE SCPBaseSizeMinified
    /\ given' = statements
    /\ pc' = "sort"
    /\ UNCHANGED <<writeFailed, exitCode,
                   userInput, inputFiles, fs, fs0, statements, files,
                   fileSizes, k, result, written, removed>>

\* ProcessFiles, line 16: buildOutput is called with what packing returned
BuildOutput ==
    /\ pc = "returned"
    /\ pc' = "write"
    /\ UNCHANGED <<writeFailed, exitCode,
                   userInput, inputFiles, fs, fs0, statements, given,
                   baseSize, files, fileSizes, k, result, written, removed>>

\* orchestrateOutputFiles, lines 37-45: the next group is written.
\* os.WriteFile may fail (permission denied, disk full): the file system
\* is then left as it was, writeOutputFile drops the error and the result
\* is appended all the same
WriteOutputFile ==
    /\ pc = "write"
    /\ Len(written) < Len(PackedFiles)
    /\ LET i == Len(written) + 1
           filename == generateOutputFilename(userInput, OutputDir, i,
                                              inputFiles)
       IN  /\ \E failed \in BOOLEAN :
                IF failed
                THEN /\ fs' = fs
                     /\ writeFailed' = writeFailed \cup {i}
                ELSE /\ fs' = WriteFile(fs, filename,
                                        writeJSON(userInput, PackedFiles[i]))
                     /\ writeFailed' = writeFailed
           /\ written' = Append(written, filename)
    /\ UNCHANGED <<exitCode, userInput, inputFiles, fs0, statements, given,
                   baseSize, files, fileSizes, k, result, removed, pc>>

\* the bug of going on to the removal before every group is written
ReportResultsEarly ==
    /\ pc = "write"
    /\ pc' = IF SingleFile THEN "done" ELSE "remove"
    /\ exitCode' = IF SingleFile THEN MainReturns ELSE exitCode
    /\ UNCHANGED <<writeFailed, userInput, inputFiles, fs, fs0, statements,
                   given, baseSize, files, fileSizes, k, result, written,
                   removed>>

\* buildOutput, lines 23-32: all groups are written and reported; the
\* input files are removed next unless the run is a single-file run
ReportResults ==
    /\ pc = "write"
    /\ Len(written) = Len(PackedFiles)
    /\ pc' = IF SingleFile THEN "done" ELSE "remove"
    /\ exitCode' = IF SingleFile THEN MainReturns ELSE exitCode
    /\ UNCHANGED <<writeFailed,
                   userInput, inputFiles, fs, fs0, statements, given,
                   baseSize, files, fileSizes, k, result, written, removed>>

\* replaceInputFiles, lines 106-110: the next input file is removed
RemoveInputFile ==
    /\ pc = "remove"
    /\ Len(removed) < Len(inputFiles)
    /\ LET inputFile == inputFiles[Len(removed) + 1]
       IN  /\ fs' = Remove(fs, inputFile)
           /\ removed' = Append(removed, inputFile)
    /\ UNCHANGED <<writeFailed, exitCode,
                   userInput, inputFiles, fs0, statements, given, baseSize,
                   files, fileSizes, k, result, written, pc>>

\* replaceInputFiles has removed every input file: ProcessFiles returns
FinishRemoval ==
    /\ pc = "remove"
    /\ Len(removed) = Len(inputFiles)
    /\ pc' = "done"
    /\ exitCode' = MainReturns
    /\ UNCHANGED <<writeFailed,
                   userInput, inputFiles, fs, fs0, statements, given,
                   baseSize, files, fileSizes, k, result, written, removed>>

---------------------------------------------------------------------------
(* The runs of ProcessFiles of the model: main's call for a single file    *)
(* and for a directory, MaxFiles being DefaultMaxFiles.                    *)

\* the most statements an input document of the model holds
MaxDocStatements == 2

MapStatement(sid, n) == [Resource |-> JString("", n), Sid |-> JString(sid, 0)]

\* statements of 25, 2541, 5074 and 5084 characters
InputStatements ==
    {MapStatement("a", 0), MapStatement("b", 2516), MapStatement("c", 5049),
     MapStatement("d", 5059)}

InputPolicies ==
    UNION {[1..n -> InputStatements] : n \in 0..MaxDocStatements}

\* {"Version":"2012-10-17","Statement":[null]}
NullStatementText == MarshalPolicy(Policy(SCPVersion, <<NilMap>>))

\* {"Version":1,"Statement":[{"Resource":"","Sid":"a"}]}
WrongTypeText ==
    <<Lit("{"), Str(JString("Version", 0)), Lit(":"), Num(1), Lit(","),
      Str(JString("Statement", 0)), Lit(":"), Lit("[")>>
    \o MarshalMap(MapStatement("a", 0))
    \o <<Lit("]"), Lit("}")>>

\* the texts an input file may hold, each with the number of elements of
\* its Statement array: a policy document, minified, or indented when it
\* has one statement, a document whose statement is null, a document
\* whose Version is a number, or text that is no JSON
InputDocs ==
    {[text |-> MarshalPolicy(Policy(SCPVersion, ss)), count |-> Len(ss)] :
        ss \in InputPolicies}
    \cup {[text |-> MarshalIndentPolicy(Policy(SCPVersion, ss)), count |-> 1] :
            ss \in {x \in InputPolicies : Len(x) = 1}}
    \cup {[text |-> NullStatementText, count |-> 1],
          [text |-> WrongTypeText, count |-> 1],
          [text |-> <<Bad(7)>>, count |-> 0]}

InputTexts == {d.text : d \in InputDocs}

SingleTarget == <<"s">> \o DotJson
DirTarget == <<"p">>
DirEntries == {<<"p", "/", "a">> \o DotJson, <<"p", "/", "p">> \o DotJson}

\* the most statements the files of a directory of the model hold together
MaxDirStatements == MaxDocStatements + 1

\* the documents of the files of a directory: any of DirEntries, holding
\* at most MaxDirStatements statements together
DirDocs ==
    {docs \in UNION {[S -> InputDocs] : S \in SUBSET DirEntries} :
        SumSeq([i \in 1..Cardinality(DOMAIN docs) |->
                  docs[SortPaths(DOMAIN docs)[i]].count]) <= MaxDirStatements}

\* the files of the target directory at the start
DirFileSystems == {[q \in DOMAIN docs |-> docs[q].text] : docs \in DirDocs}

InitCommon ==
    /\ fs0 = fs
    /\ statements = <<>>
    /\ given = <<>>
    /\ baseSize = 0
    /\ files = <<>>
    /\ fileSizes = <<>>
    /\ k = 0
    /\ result = NoResult
    /\ written = <<>>
    /\ removed = <<>>
    /\ writeFailed = {}
    /\ exitCode = Running
    /\ pc = "extract"

InitSingle ==
    /\ userInput \in {[Target |-> SingleTarget, Replace |-> r,
                       Whitespace |-> w, IsDirectory |-> FALSE,
                       MaxFiles |-> DefaultMaxFiles] :
                        r \in BOOLEAN, w \in BOOLEAN}
    /\ inputFiles = <<userInput.Target>>
    /\ fs \in [{SingleTarget} -> InputTexts]
    /\ InitCommon

InitDirectory ==
    /\ userInput \in {[Target |-> DirTarget, Replace |-> r,
                       Whitespace |-> w, IsDirectory |-> TRUE,
                       MaxFiles |-> DefaultMaxFiles] :
                        r \in BOOLEAN, w \in BOOLEAN}
    /\ fs \in DirFileSystems
    /\ inputFiles = FindJSONFilesInDirectory(fs, userInput.Target)
    /\ InitCommon

\* ProcessFiles called with a file that does not exist or with no file,
\* as TestProcessFilesErrorCases calls it
InitErrorCases ==
    /\ userInput \in {[Target |-> <<>>, Replace |-> FALSE,
                       Whitespace |-> FALSE, IsDirectory |-> FALSE,
                       MaxFiles |-> DefaultMaxFiles]}
    /\ inputFiles \in {<<>>, <<SingleTarget>>}
    /\ fs = NoFiles
    /\ InitCommon

\* ProcessFiles called with a list of two files and IsDirectory false: the
\* case in which generateOutputFilename falls back to corset<n>.json
InitFileList ==
    /\ userInput \in {[Target |-> <<>>, Replace |-> FALSE,
                       Whitespace |-> FALSE, IsDirectory |-> FALSE,
                       MaxFiles |-> DefaultMaxFiles]}
    /\ fs \in {fsys \in DirFileSystems : DOMAIN fsys = DirEntries}
    /\ inputFiles = SortPaths(DOMAIN fs)
    /\ InitCommon

Init == InitSingle \/ InitDirectory \/ InitErrorCases \/ InitFileList

Next ==
    \/ ExtractStatements
    \/ PackAllStatements
    \/ SortStatements
    \/ PlaceStatement
    \/ ReturnGroups
    \/ BuildOutput
    \/ WriteOutputFile
    \/ ReportResults
    \/ RemoveInputFile
    \/ FinishRemoval

Spec == Init /\ [][Next]_vars

---------------------------------------------------------------------------
(* Properties of packStatements, checked under SpecPack.                   *)

Returned == pc = "returned"
ReturnedGroups == Returned /\ ~result.isNil

Sizes(g) == [i \in DOMAIN g |-> g[i].Size]

\* what a group of statements is accounted for: the base overhead, the
\* statements and one comma between neighbours
GroupCost(base, g) ==
    base + SumSeq(Sizes(g)) + (IF Len(g) > 1 THEN Len(g) - 1 ELSE 0)

\* the largest statement size a file can hold
Room == MaxPolicySize - baseSize

\* C1 (completeness): when packStatements returns groups, the statements
\* of all the groups together are the statements that were passed in, each
\* as many times as it was passed in.
C1_Completeness ==
    ReturnedGroups => SameMultiset(Flatten(result.groups), given)

C1_Witness ==
    /\ ReturnedGroups
    /\ Len(result.groups) >= 2
    /\ \E i, j \in DOMAIN given : i < j /\ given[i] = given[j]
    /\ \E g \in Range(result.groups) : Len(g) >= 2

\* C2 (capacity): every returned group costs at most MaxPolicySize, counting
\* the base overhead, the statement sizes and len(g) - 1 commas.
C2_Capacity ==
    ReturnedGroups =>
        \A g \in Range(result.groups) : GroupCost(baseSize, g) <= MaxPolicySize

C2_Witness ==
    /\ ReturnedGroups
    /\ \E g \in Range(result.groups) :
          Len(g) >= 2 /\ GroupCost(baseSize, g) = MaxPolicySize

\* C6 (group bound): packStatements never returns more than MaxFiles groups.
C6_GroupBound ==
    ReturnedGroups => Len(result.groups) <= userInput.MaxFiles

C6_Witness ==
    /\ ReturnedGroups
    /\ userInput.MaxFiles >= 2
    /\ Len(result.groups) = userInput.MaxFiles
    /\ Len(given) > userInput.MaxFiles

\* C7 (infeasibility): a statement larger than MaxPolicySize - baseSize
\* makes packStatements return nil, whatever accompanies it, wherever it
\* stands in the input and whatever MaxFiles is.
C7_Infeasible ==
    (Returned /\ \E i \in DOMAIN given : given[i].Size > Room) => result.isNil

C7_Witness ==
    /\ Returned
    /\ result.isNil
    /\ userInput.MaxFiles >= 2
    /\ Len(given) >= 2
    /\ given[Len(given)].Size > Room
    /\ given[Len(given)].Size <= MaxPolicySize
    /\ \A i \in 1..(Len(given) - 1) : given[i].Size <= Room

\* C8 (empty input): packStatements of no statements returns an empty list
\* of groups, which is not nil.
C8_EmptyInput ==
    (Returned /\ given = <<>>) => result = Groups(<<>>)

C8_Witness ==
    /\ Returned
    /\ given = <<>>
    /\ userInput.MaxFiles >= 1
    /\ ~result.isNil

\* t is s sorted by size, largest first, with statements of equal size in
\* the order they have in s
IsStableSortOf(t, s) ==
    /\ Len(t) = Len(s)
    /\ SortedBySizeDesc(t)
    /\ \E p \in Permutations(DOMAIN s) :
          /\ \A i \in DOMAIN s : t[i] = s[p[i]]
          /\ \A i, j \in DOMAIN s :
                (i < j /\ t[i].Size = t[j].Size) => p[i] < p[j]

\* C9 (stable tie-break): after the sort step the statements are in
\* descending order of size and statements of equal size are in the order
\* in which they were given.
C9_StableSort ==
    pc \in {"place", "returned"} => IsStableSortOf(statements, given)

\* the statement fits in file g as file g is now
FitsIn(g, stmt) ==
    fileSizes[g] + stmt.Size + (IF files[g] # <<>> THEN 1 ELSE 0)
        <= MaxPolicySize

\* a step that places statement k + 1 appends it to the file of lowest
\* index in which it fits and adds its size and its comma to that counter
FirstFitStep ==
    (pc = "place" /\ k' = k + 1) =>
        \E g \in 1..userInput.MaxFiles :
            /\ FitsIn(g, statements[k + 1])
            /\ \A h \in 1..(g - 1) : ~FitsIn(h, statements[k + 1])
            /\ files' = [files EXCEPT ![g] = Append(@, statements[k + 1])]
            /\ fileSizes' =
                  [fileSizes EXCEPT
                     ![g] = @ + statements[k + 1].Size
                              + (IF files[g] # <<>> THEN 1 ELSE 0)]

GroupSizes(gs) == [i \in DOMAIN gs |-> Sizes(gs[i])]

\* the example of the specification
FirstFitExample ==
    (/\ ReturnedGroups
     /\ Sizes(given) = <<3000, 3000, 2000>>
     /\ baseSize = SCPBaseSizeMinified
     /\ userInput.MaxFiles = 5)
        => GroupSizes(result.groups) = <<<<3000, 2000>>, <<3000>>>>

C12_NoPartialResult ==
    Returned =>
        /\ result.isNil <=>
              (/\ k < Len(statements)
               /\ \A g \in 1..userInput.MaxFiles :
                     ~FitsIn(g, statements[k + 1]))
        /\ result.isNil => result.groups = <<>>
        /\ ~result.isNil => k = Len(statements)

C12_Witness ==
    /\ Returned
    /\ result.isNil
    /\ result.groups = <<>>
    /\ k >= 2
    /\ Cardinality({g \in DOMAIN files : files[g] # <<>>}) >= 2

\* gs is the list of the files that hold a statement, in index order
IsNonEmptyFilesOf(gs, fls) ==
    \E f \in [DOMAIN gs -> DOMAIN fls] :
        /\ \A i, j \in DOMAIN gs : i < j => f[i] < f[j]
        /\ \A i \in DOMAIN gs : gs[i] = fls[f[i]]
        /\ \A x \in DOMAIN fls : fls[x] # <<>> => \E i \in DOMAIN gs : f[i] = x

\* C13 (empty-group removal): the list packStatements returns consists of
\* exactly the files that received a statement, in increasing order of
\* their index, and none of its groups is empty.
C13_EmptyGroupRemoval ==
    ReturnedGroups =>
        /\ IsNonEmptyFilesOf(result.groups, files)
        /\ \A g \in Range(result.groups) : g # <<>>

C13_Witness ==
    /\ ReturnedGroups
    /\ Len(result.groups) >= 2
    /\ Len(result.groups) < Len(files)
    /\ \E x \in DOMAIN files : files[x] = <<>>

\* the largest of the sizes of a non-empty statement sequence
MaxSize(s) == CHOOSE z \in Range(Sizes(s)) : \A y \in Range(Sizes(s)) : y <= z

\* C24 (largest first): in every group packStatements returns the
\* statements are in non-increasing order of size, and the first statement
\* of the first group is a largest statement of the input.
C24_LargestFirst ==
    ReturnedGroups =>
        /\ \A g \in Range(result.groups) : SortedBySizeDesc(g)
        /\ given # <<>> =>
              /\ result.groups # <<>>
              /\ result.groups[1][1].Size = MaxSize(given)

C24_Witness ==
    /\ ReturnedGroups
    /\ Len(given) = 3
    /\ given[1].Size < given[2].Size
    /\ given[2].Size < given[3].Size
    /\ Len(result.groups) = 2
    /\ GroupSizes(result.groups)[1] = <<given[3].Size, given[1].Size>>

\* the packing loop is running or has ended
InLoop == pc \in {"place", "returned"}

\* C25 (running size): at every step of the packing loop fileSizes[i] is
\* baseSize plus the sizes of the statements in files[i] plus
\* max(0, len(files[i]) - 1), and it is at most MaxPolicySize for every
\* file that holds a statement.
C25_RunningSize ==
    InLoop =>
        /\ DOMAIN fileSizes = DOMAIN files
        /\ \A i \in DOMAIN files :
              /\ fileSizes[i] = GroupCost(baseSize, files[i])
              /\ files[i] # <<>> => fileSizes[i] <= MaxPolicySize

C25_Witness ==
    /\ pc = "place"
    /\ k = 3
    /\ \E i \in DOMAIN files :
          /\ Len(files[i]) = 2
          /\ fileSizes[i] = MaxPolicySize
    /\ \E i \in DOMAIN files : Len(files[i]) = 1
    /\ \E i \in DOMAIN files : files[i] = <<>> /\ fileSizes[i] = baseSize

\* C27 (contiguous groups): at every step of the packing loop the files
\* that hold a statement are the first ones, with no empty file before
\* them, so that removing the empty files cuts the tail off and returned
\* group n is file n.
C27_Contiguous ==
    /\ InLoop =>
          \A i, j \in DOMAIN files : (i < j /\ files[j] # <<>>) => files[i] # <<>>
    /\ ReturnedGroups =>
          /\ Len(result.groups) <= Len(files)
          /\ \A n \in DOMAIN result.groups : result.groups[n] = files[n]

C27_Witness ==
    /\ ReturnedGroups
    /\ Len(files) = DefaultMaxFiles
    /\ Len(result.groups) = 3
    /\ files[4] = <<>>
    /\ files[5] = <<>>

\* C29 (sufficient condition): when no statement is larger than
\* MaxPolicySize - baseSize and there are at most MaxFiles statements,
\* packStatements does not return nil; a nil result means more statements
\* than MaxFiles or a statement larger than MaxPolicySize - baseSize.
C29_Sufficient ==
    (Returned /\ result.isNil) =>
        \/ Len(given) > userInput.MaxFiles
        \/ \E i \in DOMAIN given : given[i].Size > Room

C29_Witness ==
    /\ ReturnedGroups
    /\ userInput.MaxFiles >= 2
    /\ Len(given) = userInput.MaxFiles
    /\ Len(result.groups) = userInput.MaxFiles
    /\ \A i \in DOMAIN given : given[i].Size = Room

---------------------------------------------------------------------------
(* Properties of ProcessFiles, checked under Spec.                         *)

\* packStatements has returned to ProcessFiles
Packed == pc \in {"returned", "write", "remove"} \/ (pc = "done" /\ given # <<>>)

\* C3 (output size): every document writeJSON produces for a group that
\* packAllStatements returned is at most MaxPolicySize characters long, in
\* minified and in indented form.
C3_OutputSize ==
    (Packed /\ ~result.isNil) =>
        \A g \in Range(result.groups) :
            TextLen(writeJSON(userInput, g)) <= MaxPolicySize

\* C4 (infeasible packing has no effect on files): once packing has
\* returned nil, no file is written and the files are the ones the run
\* started with, in single-file and in directory mode.
C4_InfeasibleNoEffect ==
    (Packed /\ result.isNil) => (fs = fs0 /\ written = <<>>)

\* the statements of the documents at the given paths of a file system
RECURSIVE StatementsIn(_, _)
StatementsIn(fsys, paths) ==
    IF paths = <<>> THEN <<>>
    ELSE Unmarshal(ReadFile(fsys, Head(paths))).Statement
         \o StatementsIn(fsys, Tail(paths))

\* the output files that exist after the run, as the end-to-end test looks
\* for them (findOutputFiles): in directory mode <dir>/<base>.json and
\* <dir>/<base>-<n>.json for n in 2..5, in single-file mode every .json
\* file beside the input file
OutputFilesLeft ==
    IF userInput.IsDirectory
    THEN SortPaths({q \in {generateOutputFilename(userInput, userInput.Target,
                                                  n, inputFiles) :
                             n \in 1..DefaultMaxFiles} : Exists(fs, q)})
    ELSE SortPaths({q \in DOMAIN fs :
                      Dir(q) = Dir(userInput.Target) /\ HasSuffix(q, DotJson)})

\* C5 (statement integrity): when a run over input files that hold at
\* least one statement is over, the statements of the output files that
\* exist are the statements of the input files, none missing and none twice.
C5_StatementIntegrity ==
    (pc = "done" /\ StatementsIn(fs0, inputFiles) # <<>>) =>
        SameMultiset(StatementsIn(fs, OutputFilesLeft),
                     StatementsIn(fs0, inputFiles))

\* extraction is over and packing has not sorted the statements yet
Extracted == pc = "pack" \/ (pc = "done" /\ result = NoResult)

\* no input file holds a document with a statement
NoStatementIn(fsys, paths) ==
    \A i \in DOMAIN paths :
        \/ ~Exists(fsys, paths[i])
        \/ Unmarshal(fsys[paths[i]]).Statement = <<>>

\* C14 (zero statements): when the input files hold no statement (no
\* file, missing files, text that is no JSON, documents without
\* statements), ProcessFiles ends after extraction: packing is not
\* called, no file is written, removed or changed.
C14_ZeroStatements ==
    (pc # "extract" /\ NoStatementIn(fs0, inputFiles)) =>
        /\ pc = "done"
        /\ result = NoResult
        /\ given = <<>>
        /\ written = <<>>
        /\ removed = <<>>
        /\ fs = fs0

C14_Witness ==
    /\ pc = "done"
    /\ userInput.IsDirectory
    /\ Len(inputFiles) = 2
    /\ fs0[inputFiles[1]] = MarshalPolicy(Policy(SCPVersion, <<>>))
    /\ fs0[inputFiles[2]] = <<Bad(7)>>
    /\ statements = <<>>
    /\ fs = fs0

Contents(stmts) == [i \in DOMAIN stmts |-> stmts[i].Content]

PerFile(fsys, paths) ==
    [i \in DOMAIN paths |-> extractIndividualStatements(fsys, paths[i])]

\* the file holds a policy document of the model with Version 2012-10-17
IsPolicyText(fsys, path) ==
    /\ Exists(fsys, path)
    /\ fsys[path] \notin {<<Bad(7)>>, WrongTypeText}

\* C15 (extraction order): extractAllStatements returns the statements of
\* the files one file after the other in the order of the file list, the
\* statements of a document in the order they have in the document (written
\* again in the order extracted they give the text of the document, white
\* space aside), and as many statements as the files hold together.
C15_ExtractionOrder ==
    Extracted =>
        /\ statements = Flatten(PerFile(fs0, inputFiles))
        /\ Len(statements) =
              SumSeq([i \in DOMAIN inputFiles |->
                        Len(PerFile(fs0, inputFiles)[i])])
        /\ \A i \in DOMAIN inputFiles :
              IsPolicyText(fs0, inputFiles[i]) =>
                  MarshalPolicy(
                      Policy(SCPVersion,
                             Contents(PerFile(fs0, inputFiles)[i])))
                    = Compact(fs0[inputFiles[i]])

C15_Witness ==
    /\ pc = "pack"
    /\ Len(inputFiles) = 2
    /\ Len(statements) = 3
    /\ Len(PerFile(fs0, inputFiles)[1]) = 2
    /\ Cardinality(Range(statements)) = 3
    /\ statements[1].Size < statements[2].Size
    /\ statements[3].Size < statements[2].Size

\* the file can be read and json.Unmarshal of its text returns no error
ParsesAsPolicy(fsys, path) ==
    Exists(fsys, path) /\ ~UnmarshalError(fsys[path])

\* C16 (extraction leniency): a file that cannot be read or that does not
\* parse as a policy document contributes no statement, and the statements
\* of the other files are returned in order as if it were not in the list.
C16_Leniency ==
    Extracted =>
        /\ \A i \in DOMAIN inputFiles :
              ~ParsesAsPolicy(fs0, inputFiles[i])
                 => PerFile(fs0, inputFiles)[i] = <<>>
        /\ statements =
              extractAllStatements(
                  fs0, SelectSeq(inputFiles,
                                 LAMBDA f : ParsesAsPolicy(fs0, f)))

\* C17 (statement size): every extracted statement has a content that is
\* not nil and a size that is the length of the minified serialization of
\* that statement alone, so a size above 0; packing works on these very
\* statements and sizes.
C17_StatementSize ==
    /\ Extracted =>
          \A i \in DOMAIN statements :
              /\ statements[i].Content # NilMap
              /\ statements[i].Size =
                    TextLen(MarshalMap(statements[i].Content))
              /\ statements[i].Size > 0
    /\ pc \in {"sort", "place", "returned"} =>
          /\ SameMultiset(statements, given)
          /\ \A g \in DOMAIN files : \A i \in DOMAIN files[g] :
                files[g][i] \in Range(given)

\* parsing the text gives, without error, the document of these statements
RoundTrips(text, stmts) ==
    Decode(text) = [policy |-> Policy(SCPVersion, Contents(stmts)),
                    err |-> FALSE]

\* C18 (assembler round trip): parsing what writeJSON produces for a
\* statement sequence, minified or indented, gives a document whose
\* Version is 2012-10-17 and whose statements are the statements of the
\* sequence, as many and in the same order; the files written hold such
\* texts.
C18_RoundTrip ==
    /\ (pc = "write" /\ written = <<>>) =>
          /\ \A w \in BOOLEAN :
                RoundTrips(writeJSON([Whitespace |-> w], <<>>), <<>>)
          /\ \A g \in Range(PackedFiles) :
                RoundTrips(writeJSON(userInput, g), g)
    /\ pc = "write" =>
          /\ \A i \in DOMAIN written :
                i \notin writeFailed =>
                    RoundTrips(fs[written[i]], PackedFiles[i])

C18_Witness ==
    /\ pc = "write"
    /\ userInput.Whitespace
    /\ Len(written) = 2
    /\ writeFailed = {}
    /\ Len(PackedFiles[2]) = 2
    /\ PackedFiles[2][1] # PackedFiles[2][2]
    /\ RoundTrips(fs[written[2]], PackedFiles[2])

\* C19 (write failures are fatal): once the writing of an output file has
\* failed nothing more happens to the files: no later output file is
\* written and no input file is removed.
C19_WriteFailureFatal ==
    \A i \in writeFailed : Len(written) = i /\ removed = <<>>

\* packing returned nil; extraction found no statement
Infeasible == given # <<>> /\ result.isNil
ZeroStatements == result = NoResult

\* C20 (exit status): a run ends with an exit status other than 0 exactly
\* when packing was infeasible or no statement was found.
C20_ExitStatus ==
    pc = "done" => (exitCode # 0 <=> (Infeasible \/ ZeroStatements))

\* packing returned k >= 1 groups
PackedGroups == Packed /\ ~result.isNil /\ Len(result.groups) >= 1

\* the name beside s.json of the file of group n >= 2
SplitName(n) == <<"s", "-">> \o Itoa(n) \o DotJson

DirName(n) ==
    <<"p", "/", "p">> \o (IF n = 1 THEN <<>> ELSE <<"-">> \o Itoa(n))
    \o DotJson

\* C22 (directory consolidation): after a directory run with k >= 1
\* groups every input file is gone and <dir>/<base>.json and
\* <dir>/<base>-<n>.json, n in 2..k, exist, whatever the names of the
\* input files are (no write having failed).
C22_DirectoryConsolidation ==
    (pc = "done" /\ userInput.IsDirectory /\ PackedGroups /\ writeFailed = {})
        => /\ \A i \in DOMAIN inputFiles : ~Exists(fs, inputFiles[i])
           /\ \A n \in DOMAIN result.groups : Exists(fs, DirName(n))

\* C23 (replace option): when Replace is false no input file is removed
\* or changed, and output file n is written to <outputDir>/corset<n>.json.
C23_ReplaceOption ==
    ~userInput.Replace =>
        /\ removed = <<>>
        /\ \A n \in DOMAIN written :
              written[n] = Join(OutputDir, Corset \o Itoa(n) \o DotJson)
        /\ \A i \in DOMAIN inputFiles :
              Exists(fs0, inputFiles[i]) =>
                  /\ Exists(fs, inputFiles[i])
                  /\ fs[inputFiles[i]] = fs0[inputFiles[i]]

\* the path of output file n of the run
OutputName(n) == generateOutputFilename(userInput, OutputDir, n, inputFiles)

WriteBeforeDelete ==
    /\ removed # <<>> => (~SingleFile /\ Len(written) = Len(PackedFiles))
    /\ SingleFile => removed = <<>>
    /\ \A n \in DOMAIN written : written[n] = OutputName(n)

WriteOrderStep ==
    /\ written' # written =>
          /\ removed = <<>> /\ removed' = <<>>
          /\ written' = Append(written, OutputName(Len(written) + 1))
    /\ removed' # removed =>
          /\ written' = written
          /\ Len(written) = Len(PackedFiles)

\* C26 (write before delete): the output files of all groups are written,
\* in increasing order of group index, before the first input file is
\* removed, and no input file is removed in single-file mode.
C26_WriteBeforeDelete == []WriteBeforeDelete /\ [][WriteOrderStep]_vars

C26_Witness ==
    /\ pc = "remove"
    /\ userInput.IsDirectory
    /\ Len(written) = 2
    /\ Len(removed) = 1
    /\ Len(inputFiles) = 2

\* C28 (accounting against the minified output): for every group of
\* n >= 1 extracted statements the minified document of writeJSON is 2
\* characters longer than the counter of the group, which started at
\* SCPBaseSizeMinified = 37: 39 + the sizes + (n - 1) characters.
C28_MinifiedLength ==
    (Packed /\ ~result.isNil /\ ~userInput.Whitespace) =>
        /\ baseSize = 37
        /\ \A n \in DOMAIN result.groups :
              LET g == result.groups[n]
              IN  /\ TextLen(writeJSON(userInput, g)) = fileSizes[n] + 2
                  /\ TextLen(writeJSON(userInput, g)) =
                        39 + SumSeq(Sizes(g)) + (Len(g) - 1)

C28_Witness ==
    /\ pc = "write"
    /\ ~userInput.Whitespace
    /\ ~result.isNil
    /\ Len(result.groups) = 2
    /\ Len(result.groups[2]) = 2
    /\ fileSizes[2] = MaxPolicySize
    /\ TextLen(writeJSON(userInput, result.groups[2])) = MaxPolicySize + 2

\* C30 (distinct destinations): generateOutputFilename gives different
\* paths for different file numbers in single-file, directory and
\* fallback mode, so no output file of a run is overwritten by another one
\* of the run and as many files are written as there are groups.
C30_DistinctDestinations ==
    pc = "write" =>
        /\ \A n, m \in 1..DefaultMaxFiles :
              n # m => OutputName(n) # OutputName(m)
        /\ \A i, j \in DOMAIN written : i # j => written[i] # written[j]
        /\ \A i \in DOMAIN written \ writeFailed :
              /\ Exists(fs, written[i])
              /\ fs[written[i]] = writeJSON(userInput, PackedFiles[i])
        /\ (Len(written) = Len(PackedFiles) /\ writeFailed = {}) =>
              Cardinality(Range(written)) = Len(PackedFiles)

C30_Witness ==
    /\ pc = "write"
    /\ ~userInput.IsDirectory
    /\ Len(inputFiles) = 2
    /\ Len(PackedFiles) = 2
    /\ Len(written) = 2
    /\ writeFailed = {}
    /\ written[1] = <<"p", "/">> \o Corset \o <<"1">> \o DotJson
    /\ written[2] = <<"p", "/">> \o Corset \o <<"2">> \o DotJson
    /\ Exists(fs, written[1])
    /\ Exists(fs, written[2])

=============================================================================
